---- MODULE Spec2Model ----
(***************************************************************************)
(* Model of src/or/conscache.c: the consensus cache, an in-memory index of  *)
(* reference-counted entries over a storage directory.                     *)
(*                                                                         *)
(* The program is single-threaded, so every public function is one atomic  *)
(* action.  Objects on the C heap are modelled by the array `ent` of entry *)
(* records; a destroyed entry keeps its slot, wiped as memwipe() leaves it, *)
(* with alive = FALSE.  Pointers are indices, 0 is NULL.                    *)
(*                                                                         *)
(* Undefined behaviour (a use of freed memory that changes control flow, a *)
(* call on a NULL directory) has two modelled outcomes: the benign one the *)
(* usual build produces, and `ub` = TRUE, a terminal state standing for an  *)
(* abort or arbitrary corruption.                                          *)
(***************************************************************************)
EXTENDS Integers, Sequences, FiniteSets, TLC

VARIABLES cache,     \* the consensus_cache_t: [st, dir]
          entries,   \* cache->entries: sequence of entry pointers
          ent,       \* heap of consensus_cache_entry_t objects
          disk,      \* files of the storage directory, in listing order
          mmaps,     \* per entry, the tor_mmap_t handles made for it: releases of each
          held,      \* refcount units taken by external callers, per entry
          out,       \* a smartlist of entries held by the caller
          last,      \* the last call: its arguments, result and events
          ub         \* undefined behaviour has materialised

vars == <<cache, entries, ent, disk, mmaps, held, out, last, ub>>

(***************************************************************************)
(* Bounds                                                                  *)
(***************************************************************************)
MaxEnt == 2      \* entry objects ever allocated
MaxHeld == 2     \* refcount units external callers hold at a time
MaxOut == 3      \* length of the caller's list
MaxIdx == 3      \* entries of the index the queries run on

(***************************************************************************)
(* Labels, bodies                                                          *)
(***************************************************************************)
Keys == {"flavor", "type"}
Values == {"ns", "microdesc"}
NoValue == "NULL"

Label(k, v) == [key |-> k, value |-> v]

\* label sequences of the entries the queries run on
QueryLabels ==
  { <<>>,
    <<Label("flavor", "ns")>>,
    <<Label("type", "ns"), Label("flavor", "microdesc")>>,
    <<Label("flavor", "microdesc")>>,
    <<Label("flavor", "ns"), Label("flavor", "microdesc")>> }

\* the documents a caller adds
Documents ==
  { [labels |-> <<Label("flavor", "ns")>>, data |-> <<1, 2>>],
    [labels |-> <<Label("type", "ns"), Label("flavor", "microdesc"),
                  Label("flavor", "ns")>>,
     data |-> <<1>>] }

\* what earlier runs of the program can have left in the storage directory:
\* nothing, or two files
EarlierFiles ==
  { <<>>,
    <<[fname |-> 1, labels |-> <<Label("flavor", "ns")>>, body |-> <<1, 2>>],
      [fname |-> 2,
       labels |-> <<Label("type", "ns"), Label("flavor", "microdesc")>>,
       body |-> <<1>>]>> }

(***************************************************************************)
(* struct consensus_cache_entry_t                                          *)
(***************************************************************************)
\* what memwipe(ent, 0, sizeof(*ent)) leaves behind, then tor_free(ent)
WipedEntry ==
  [alive |-> FALSE, refcnt |-> 0, can_remove |-> 0, fname |-> 0,
   labels |-> <<>>, in_cache |-> 0, map |-> 0, bodylen |-> 0, body |-> <<>>]

\* tor_malloc_zero(sizeof(consensus_cache_entry_t))
ZeroEntry == [WipedEntry EXCEPT !.alive = TRUE]

\* the address tor_malloc_zero gives the consensus_cache_t; the caches of a
\* run live one after the other
TheCache == 1

Allocated == 1..Len(ent)
Alive == {e \in Allocated : ent[e].alive}

\* config_lines_dup: a fresh list with the same keys and values in order
config_lines_dup(labels) == [i \in 1..Len(labels) |-> Label(labels[i].key, labels[i].value)]

(***************************************************************************)
(* Entry operations                                                        *)
(***************************************************************************)
\* config_line_find + consensus_cache_entry_get_value: the value of the
\* first label whose key is `key`, or NULL
RECURSIVE config_line_find(_, _, _)
config_line_find(labels, key, i) ==
  IF i > Len(labels) THEN 0
  ELSE IF labels[i].key = key THEN i
  ELSE config_line_find(labels, key, i + 1)

consensus_cache_entry_get_value(E, e, key) ==
  LET match == config_line_find(E[e].labels, key, 1)
  IN IF match /= 0 THEN E[e].labels[match].value ELSE NoValue

\* consensus_cache_entry_get_labels
consensus_cache_entry_get_labels(E, e) == E[e].labels

\* A mapping handle of entry e is the number n of the mapping among those
\* made for e; mmaps[e][n] counts its releases.
\* tor_munmap_file(ent->map)
tor_munmap_file(M, e, n) == [M EXCEPT ![e][n] = @ + 1]

\* consensus_cache_entry_incref that adds two
consensus_cache_entry_incref_twice(E, e) == [E EXCEPT ![e].refcnt = @ + 2]

\* consensus_cache_entry_incref that leaves the count as it is
consensus_cache_entry_incref_noop(E, e) == E

\* consensus_cache_entry_incref
consensus_cache_entry_incref(E, e) == [E EXCEPT ![e].refcnt = @ + 1]

\* consensus_cache_entry_decref with the guard written refcnt < 0
consensus_cache_entry_decref_lt(E, M, e, seen) ==
  IF e = 0 THEN [ent |-> E, mmaps |-> M, bug |-> FALSE]
  ELSE IF seen < 0 THEN [ent |-> E, mmaps |-> M, bug |-> TRUE]
  ELSE IF seen - 1 > 0
    THEN [ent |-> [E EXCEPT ![e].refcnt = seen - 1], mmaps |-> M, bug |-> FALSE]
    ELSE [ent |-> [E EXCEPT ![e] = WipedEntry],
          mmaps |-> IF E[e].map /= 0 THEN tor_munmap_file(M, e, E[e].map) ELSE M,
          bug |-> FALSE]

\* consensus_cache_entry_decref that frees the entry without tor_munmap_file
consensus_cache_entry_decref_leak(E, M, e, seen) ==
  IF e = 0 THEN [ent |-> E, mmaps |-> M, bug |-> FALSE]
  ELSE IF seen <= 0 THEN [ent |-> E, mmaps |-> M, bug |-> TRUE]
  ELSE IF seen - 1 > 0
    THEN [ent |-> [E EXCEPT ![e].refcnt = seen - 1], mmaps |-> M, bug |-> FALSE]
    ELSE [ent |-> [E EXCEPT ![e] = WipedEntry], mmaps |-> M, bug |-> FALSE]

\* consensus_cache_entry_decref.  `seen` is the value read from ent->refcnt:
\* the field itself for a live entry, whatever freed memory holds otherwise.
consensus_cache_entry_decref(E, M, e, seen) ==
  IF e = 0 THEN [ent |-> E, mmaps |-> M, bug |-> FALSE]
  ELSE IF seen <= 0 THEN [ent |-> E, mmaps |-> M, bug |-> TRUE]
  ELSE IF seen - 1 > 0
    THEN [ent |-> [E EXCEPT ![e].refcnt = seen - 1], mmaps |-> M, bug |-> FALSE]
    ELSE [ent |-> [E EXCEPT ![e] = WipedEntry],
          mmaps |-> IF E[e].map /= 0 THEN tor_munmap_file(M, e, E[e].map) ELSE M,
          bug |-> FALSE]

\* consensus_cache_entry_mark_for_removal that flips the flag
consensus_cache_entry_mark_for_removal_flip(E, e) ==
  [E EXCEPT ![e].can_remove = 1 - @]

\* consensus_cache_entry_mark_for_removal
consensus_cache_entry_mark_for_removal(E, e) == [E EXCEPT ![e].can_remove = 1]

\* storage_dir_save_labelled_to_file on success: the directory D gets a file
\* named fname that carries the labels and the bytes
storage_dir_save_labelled_to_file(D, labels, data, fname) ==
  Append(D, [fname |-> fname, labels |-> labels, body |-> data])

\* storage_dir_map_labelled on success: the labels and the body of file i
storage_dir_map_labelled(D, i) == [labels |-> D[i].labels, body |-> D[i].body]

\* the file named fname in the storage directory, 0 if none
FileOf(fname) ==
  IF \E i \in 1..Len(disk) : disk[i].fname = fname
    THEN CHOOSE i \in 1..Len(disk) : disk[i].fname = fname
    ELSE 0

\* consensus_cache_entry_map that does not store the length of the body
consensus_cache_entry_map_nolen(E, M, e, mapok) ==
  IF E[e].map /= 0 THEN [ent |-> E, mmaps |-> M, mapcalls |-> 0]
  ELSE IF mapok /\ FileOf(E[e].fname) /= 0
    THEN LET f == storage_dir_map_labelled(disk, FileOf(E[e].fname))
         IN [ent |-> [E EXCEPT ![e].map = Len(M[e]) + 1,
                                ![e].body = f.body],
             mmaps |-> [M EXCEPT ![e] = Append(@, 0)], mapcalls |-> 1]
    ELSE [ent |-> E, mmaps |-> M, mapcalls |-> 1]

\* consensus_cache_entry_map.  `mapok`: storage_dir_map_labelled succeeds.
consensus_cache_entry_map(E, M, e, mapok) ==
  IF E[e].map /= 0 THEN [ent |-> E, mmaps |-> M, mapcalls |-> 0]
  ELSE IF mapok /\ FileOf(E[e].fname) /= 0
    THEN LET f == storage_dir_map_labelled(disk, FileOf(E[e].fname))
         IN [ent |-> [E EXCEPT ![e].map = Len(M[e]) + 1,
                                ![e].body = f.body,
                                ![e].bodylen = Len(f.body)],
             mmaps |-> [M EXCEPT ![e] = Append(@, 0)], mapcalls |-> 1]
    ELSE [ent |-> E, mmaps |-> M, mapcalls |-> 1]

\* consensus_cache_entry_get_body without the test of ent->map: it goes to
\* the owning cache on every call
consensus_cache_entry_get_body_always(E, M, e, mapok) ==
  LET fail(E1, M1, n) ==
        [ent |-> E1, mmaps |-> M1, r |-> -1, ptr |-> 0, sz |-> 0,
         bytes |-> <<>>, mapcalls |-> n]
      ok(E1, M1, n) ==
        [ent |-> E1, mmaps |-> M1, r |-> 0, ptr |-> E1[e].map,
         sz |-> E1[e].bodylen, bytes |-> E1[e].body, mapcalls |-> n]
  IN IF E[e].in_cache = 0 THEN fail(E, M, 0)
     ELSE LET m == consensus_cache_entry_map(E, M, e, mapok)
          IN IF m.ent[e].map = 0 THEN fail(m.ent, m.mmaps, m.mapcalls)
             ELSE ok(m.ent, m.mmaps, m.mapcalls)

\* consensus_cache_entry_get_body that detaches the entry from its cache when
\* the map fails
consensus_cache_entry_get_body_giveup(E, M, e, mapok) ==
  LET fail(E1, M1, n) ==
        [ent |-> E1, mmaps |-> M1, r |-> -1, ptr |-> 0, sz |-> 0,
         bytes |-> <<>>, mapcalls |-> n]
      ok(E1, M1, n) ==
        [ent |-> E1, mmaps |-> M1, r |-> 0, ptr |-> E1[e].map,
         sz |-> E1[e].bodylen, bytes |-> E1[e].body, mapcalls |-> n]
  IN IF E[e].map = 0
       THEN IF E[e].in_cache = 0 THEN fail(E, M, 0)
            ELSE LET m == consensus_cache_entry_map(E, M, e, mapok)
                 IN IF m.ent[e].map = 0
                      THEN fail([m.ent EXCEPT ![e].in_cache = 0], m.mmaps,
                                m.mapcalls)
                      ELSE ok(m.ent, m.mmaps, m.mapcalls)
       ELSE ok(E, M, 0)

\* consensus_cache_entry_get_body
consensus_cache_entry_get_body(E, M, e, mapok) ==
  LET fail(E1, M1, n) ==
        [ent |-> E1, mmaps |-> M1, r |-> -1, ptr |-> 0, sz |-> 0,
         bytes |-> <<>>, mapcalls |-> n]
      ok(E1, M1, n) ==
        [ent |-> E1, mmaps |-> M1, r |-> 0, ptr |-> E1[e].map,
         sz |-> E1[e].bodylen, bytes |-> E1[e].body, mapcalls |-> n]
  IN IF E[e].map = 0
       THEN IF E[e].in_cache = 0 THEN fail(E, M, 0)
            ELSE LET m == consensus_cache_entry_map(E, M, e, mapok)
                 IN IF m.ent[e].map = 0 THEN fail(m.ent, m.mmaps, m.mapcalls)
                    ELSE ok(m.ent, m.mmaps, m.mapcalls)
       ELSE ok(E, M, 0)

(***************************************************************************)
(* Cache operations                                                        *)
(***************************************************************************)
\* storage_dir_list(dir): the file names of the directory, in its order; a
\* NULL handle that does not fault lists nothing
storage_dir_list(dir) ==
  IF dir = 0 THEN <<>> ELSE [i \in 1..Len(disk) |-> disk[i].fname]

\* consensus_cache_rescan that gives up at the first file it cannot map
RECURSIVE consensus_cache_rescan_abort(_, _, _, _, _, _, _)
consensus_cache_rescan_abort(E, L, S, fnames, i, bad, cid) ==
  IF i > Len(fnames) THEN [ent |-> E, entries |-> L, scan |-> S]
  ELSE IF i \in bad
    THEN [ent |-> E, entries |-> L,
          scan |-> S \o [j \in 1..(Len(fnames) - i + 1) |->
                           [made |-> 0, released |-> 0]]]
  ELSE LET new == [ZeroEntry EXCEPT !.fname = fnames[i],
                                    !.labels =
                                      storage_dir_map_labelled(
                                        disk, FileOf(fnames[i])).labels,
                                    !.refcnt = 1,
                                    !.in_cache = cid]
           S1 == Append(S, [made |-> 1, released |-> 1])
       IN consensus_cache_rescan_abort(Append(E, new), Append(L, Len(E) + 1),
                                       S1, fnames, i + 1, bad, cid)

\* consensus_cache_rescan: the loop over storage_dir_list(cache->dir).
\* `bad`: the files storage_dir_map_labelled cannot map.
\* `S`: per file, the discovery mappings made and released.
RECURSIVE consensus_cache_rescan(_, _, _, _, _, _, _)
consensus_cache_rescan(E, L, S, fnames, i, bad, cid) ==
  IF i > Len(fnames) THEN [ent |-> E, entries |-> L, scan |-> S]
  ELSE IF i \in bad
    THEN consensus_cache_rescan(E, L, Append(S, [made |-> 0, released |-> 0]),
                                fnames, i + 1, bad, cid)
  ELSE LET new == [ZeroEntry EXCEPT !.fname = fnames[i],
                                    !.labels =
                                      storage_dir_map_labelled(
                                        disk, FileOf(fnames[i])).labels,
                                    !.refcnt = 1,
                                    !.in_cache = cid]
           \* the discovery mapping: created, then tor_munmap_file(map)
           S1 == Append(S, [made |-> 1, released |-> 1])
       IN consensus_cache_rescan(Append(E, new), Append(L, Len(E) + 1), S1,
                                 fnames, i + 1, bad, cid)

\* consensus_cache_add that puts the new entry at the front of the list
consensus_cache_add_front(E, L, cid, labels, r, fname) ==
  IF r < 0 \/ fname = 0 THEN [ent |-> E, entries |-> L, ret |-> 0]
  ELSE LET new == [ZeroEntry EXCEPT !.fname = fname,
                                    !.refcnt = 1,
                                    !.labels = config_lines_dup(labels),
                                    !.in_cache = cid]
       IN [ent |-> Append(E, new), entries |-> <<Len(E) + 1>> \o L,
           ret |-> Len(E) + 1]

\* consensus_cache_add that tests only r < 0
consensus_cache_add_nofname(E, L, cid, labels, r, fname) ==
  IF r < 0 THEN [ent |-> E, entries |-> L, ret |-> 0]
  ELSE LET new == [ZeroEntry EXCEPT !.fname = fname,
                                    !.refcnt = 1,
                                    !.labels = config_lines_dup(labels),
                                    !.in_cache = cid]
       IN [ent |-> Append(E, new), entries |-> Append(L, Len(E) + 1),
           ret |-> Len(E) + 1]

\* consensus_cache_add after storage_dir_save_labelled_to_file returned r
\* and set fname (0 is NULL)
consensus_cache_add(E, L, cid, labels, r, fname) ==
  IF r < 0 \/ fname = 0 THEN [ent |-> E, entries |-> L, ret |-> 0]
  ELSE LET new == [ZeroEntry EXCEPT !.fname = fname,
                                    !.refcnt = 1,
                                    !.labels = config_lines_dup(labels),
                                    !.in_cache = cid]
       IN [ent |-> Append(E, new), entries |-> Append(L, Len(E) + 1),
           ret |-> Len(E) + 1]

\* the loop of consensus_cache_free without ent->in_cache = NULL
RECURSIVE consensus_cache_free_keepref(_, _, _, _, _)
consensus_cache_free_keepref(E, L, M, i, uaf) ==
  IF i > Len(L) THEN [ent |-> E, mmaps |-> M, uaf |-> uaf]
  ELSE LET e == L[i]
           d == consensus_cache_entry_decref(E, M, e, E[e].refcnt)
       IN consensus_cache_free_keepref(d.ent, L, d.mmaps, i + 1, uaf)

\* the loop of consensus_cache_free without the decref of the cache's unit
RECURSIVE consensus_cache_free_nodecref(_, _, _, _, _)
consensus_cache_free_nodecref(E, L, M, i, uaf) ==
  IF i > Len(L) THEN [ent |-> E, mmaps |-> M, uaf |-> uaf]
  ELSE consensus_cache_free_nodecref([E EXCEPT ![L[i]].in_cache = 0], L, M,
                                     i + 1, uaf)

\* the loop of consensus_cache_free: decref, then ent->in_cache = NULL.
\* `uaf` collects the entries written after the decref destroyed them; the
\* write stores 0 into memory memwipe already zeroed.
RECURSIVE consensus_cache_free(_, _, _, _, _)
consensus_cache_free(E, L, M, i, uaf) ==
  IF i > Len(L) THEN [ent |-> E, mmaps |-> M, uaf |-> uaf]
  ELSE LET e == L[i]
           d == consensus_cache_entry_decref(E, M, e, E[e].refcnt)
           dead == ~ d.ent[e].alive
           E1 == [d.ent EXCEPT ![e].in_cache = 0]
       IN consensus_cache_free(E1, L, d.mmaps, i + 1,
                               IF dead THEN Append(uaf, e) ELSE uaf)

\* smartlist_del(sl, idx): the last element moves into the idx-th place
smartlist_del(lst, i) ==
  [j \in 1..(Len(lst) - 1) |-> IF j = i THEN lst[Len(lst)] ELSE lst[j]]

\* consensus_cache_filter_list without the test ! found_val: an entry that
\* has no label of the key stays in the list
RECURSIVE consensus_cache_filter_list_keepnull(_, _, _, _, _)
consensus_cache_filter_list_keepnull(E, lst, key, value, i) ==
  IF i > Len(lst) THEN lst
  ELSE LET found_val == consensus_cache_entry_get_value(E, lst[i], key)
       IN IF found_val /= NoValue /\ value /= found_val
            THEN consensus_cache_filter_list_keepnull(E, smartlist_del(lst, i),
                                                      key, value, i)
            ELSE consensus_cache_filter_list_keepnull(E, lst, key, value, i + 1)

\* consensus_cache_filter_list with a delete that does not step the index
\* back: the element moved into the hole is not examined
RECURSIVE consensus_cache_filter_list_skip(_, _, _, _, _)
consensus_cache_filter_list_skip(E, lst, key, value, i) ==
  IF i > Len(lst) THEN lst
  ELSE LET found_val == consensus_cache_entry_get_value(E, lst[i], key)
       IN IF found_val = NoValue \/ value /= found_val
            THEN consensus_cache_filter_list_skip(E, smartlist_del(lst, i),
                                                  key, value, i + 1)
            ELSE consensus_cache_filter_list_skip(E, lst, key, value, i + 1)

\* consensus_cache_filter_list: SMARTLIST_FOREACH with SMARTLIST_DEL_CURRENT,
\* which deletes and re-examines the same index
RECURSIVE consensus_cache_filter_list(_, _, _, _, _)
consensus_cache_filter_list(E, lst, key, value, i) ==
  IF i > Len(lst) THEN lst
  ELSE LET found_val == consensus_cache_entry_get_value(E, lst[i], key)
       IN IF found_val = NoValue \/ value /= found_val
            THEN consensus_cache_filter_list(E, smartlist_del(lst, i), key, value, i)
            ELSE consensus_cache_filter_list(E, lst, key, value, i + 1)

\* consensus_cache_find_all: out gets the filtered copy of cache->entries
consensus_cache_find_all(E, outlist, L, key, value) ==
  outlist \o consensus_cache_filter_list(E, L, key, value, 1)

\* consensus_cache_find_all that filters cache->entries itself
consensus_cache_find_all_entries_inplace(E, L, key, value) ==
  consensus_cache_filter_list(E, L, key, value, 1)

\* consensus_cache_find_all: cache->entries after the call.  The list is
\* only read, by smartlist_add_all(tmp, cache->entries); the filter works on
\* tmp, which is freed at the end.
consensus_cache_find_all_entries(E, L, key, value) ==
  LET tmp == L
      filtered == consensus_cache_filter_list(E, tmp, key, value, 1)
  IN L

\* consensus_cache_find_first
consensus_cache_find_first(E, L, key, value) ==
  LET tmp == consensus_cache_find_all(E, <<>>, L, key, value)
  IN IF Len(tmp) /= 0 THEN tmp[1] ELSE 0

NoCall == [op |-> "none"]

\* Before the first consensus_cache_open: no cache, no entry; the storage
\* directory holds the documents earlier runs of the program saved.
Init ==
  /\ cache = [st |-> "none", dir |-> 0]
  /\ entries = <<>>
  /\ ent = <<>>
  /\ disk \in EarlierFiles
  /\ mmaps = <<>>
  /\ held = <<>>
  /\ out = <<>>
  /\ last = NoCall
  /\ ub = FALSE

(***************************************************************************)
(* Actions: one per public function, called by the embedding host          *)
(***************************************************************************)
\* consensus_cache_open.  storage_dir_new gives a handle or NULL; the result
\* is stored unchecked and consensus_cache_rescan runs on it.  On a NULL
\* handle storage_dir_list either faults or lists nothing.
Open ==
  /\ ~ub
  /\ cache.st \in {"none", "closed"}
  /\ \E dir \in {0, 1} :
     \E bad \in (IF dir = 0 THEN {{}} ELSE SUBSET (1..Len(disk))) :
     \E fault \in (IF dir = 0 THEN BOOLEAN ELSE {FALSE}) :
       LET cid == TheCache
           r == consensus_cache_rescan(ent, <<>>, <<>>, storage_dir_list(dir),
                                       1, bad, cid)
       IN /\ Len(ent) + Len(disk) <= MaxEnt
          /\ cache' = [st |-> "open", dir |-> dir]
          /\ entries' = r.entries
          /\ ent' = r.ent
          /\ mmaps' = mmaps \o [i \in 1..(Len(r.ent) - Len(ent)) |-> <<>>]
          /\ held' = held \o [i \in 1..(Len(r.ent) - Len(ent)) |-> 0]
          /\ last' = [op |-> "open", dir |-> dir, rescanned |-> TRUE,
                      ret |-> IF fault THEN 0 ELSE cid, bad |-> bad,
                      scan |-> r.scan]
          /\ ub' = fault
  /\ UNCHANGED <<disk, out>>

\* consensus_cache_free
Close ==
  /\ ~ub
  /\ cache.st = "open"
  /\ LET r == consensus_cache_free(ent, entries, mmaps, 1, <<>>) IN
     /\ ent' = r.ent
     /\ mmaps' = r.mmaps
     /\ entries' = <<>>
     /\ cache' = [cache EXCEPT !.st = "closed", !.dir = 0]
     /\ last' = [op |-> "close", uaf |-> r.uaf, index |-> entries,
                 pre |-> [i \in 1..Len(entries) |-> ent[entries[i]].refcnt]]
     /\ \E fault \in (IF r.uaf = <<>> THEN {FALSE} ELSE BOOLEAN) : ub' = fault
  /\ UNCHANGED <<disk, held, out>>

\* consensus_cache_add.  storage_dir_save_labelled_to_file returns r and
\* sets fname; on a NULL handle it fails or faults.
Add ==
  /\ ~ub
  /\ cache.st = "open"
  /\ Len(ent) < MaxEnt
  /\ \E doc \in Documents :
     LET labels == doc.labels
         data == doc.data
     IN
     \/ /\ cache.dir /= 0
        /\ \E r \in {-1, 0}, named \in BOOLEAN :
             LET fname == IF named /\ r = 0 THEN Len(disk) + 1 ELSE 0
                 a == consensus_cache_add(ent, entries, TheCache, labels, r, fname)
             IN /\ ent' = a.ent
                /\ entries' = a.entries
                /\ held' = held \o [i \in 1..(Len(a.ent) - Len(ent)) |-> 0]
                /\ mmaps' = mmaps \o [i \in 1..(Len(a.ent) - Len(ent)) |-> <<>>]
                /\ disk' = IF fname /= 0
                             THEN storage_dir_save_labelled_to_file(
                                    disk, labels, data, fname)
                             ELSE disk
                /\ last' = [op |-> "add", labels |-> labels, data |-> data,
                            r |-> r, fname |-> fname, ret |-> a.ret]
                /\ ub' = FALSE
     \/ /\ cache.dir = 0
        /\ \E fault \in BOOLEAN :
             /\ last' = [op |-> "add", labels |-> labels, data |-> data,
                         r |-> -1, fname |-> 0, ret |-> 0]
             /\ ub' = fault
             /\ UNCHANGED <<ent, entries, held, disk, mmaps>>
  /\ UNCHANGED <<cache, out>>

RECURSIVE SumSeq(_, _)
SumSeq(q, i) == IF i > Len(q) THEN 0 ELSE q[i] + SumSeq(q, i + 1)

\* consensus_cache_entry_incref on a handle the caller has
Incref ==
  /\ ~ub
  /\ SumSeq(held, 1) < MaxHeld
  /\ \E e \in Alive :
       /\ ent' = consensus_cache_entry_incref(ent, e)
       /\ held' = [held EXCEPT ![e] = @ + 1]
       /\ last' = [op |-> "incref", e |-> e]
  /\ UNCHANGED <<cache, entries, disk, mmaps, out, ub>>

\* consensus_cache_entry_decref of a unit the caller took
Decref ==
  /\ ~ub
  /\ \E e \in Alive :
       /\ held[e] > 0
       /\ LET d == consensus_cache_entry_decref(ent, mmaps, e, ent[e].refcnt) IN
          /\ ent' = d.ent
          /\ mmaps' = d.mmaps
          /\ held' = [held EXCEPT ![e] = @ - 1]
          /\ last' = [op |-> "decref", e |-> e, seen |-> ent[e].refcnt,
                      bug |-> d.bug]
  /\ UNCHANGED <<cache, entries, disk, out, ub>>

\* what a read of ent->refcnt can find in the memory of a destroyed entry:
\* the zero memwipe left, or what the allocator wrote there since
FreedReads == {0, 1}

\* consensus_cache_entry_decref once more, on an entry the call before (a
\* decref or the close of the cache) has destroyed.  When the read finds a
\* positive count the call writes to and frees freed memory.
DecrefDestroyed ==
  /\ ~ub
  /\ \E e \in Allocated \ Alive, seen \in FreedReads :
       LET d == consensus_cache_entry_decref(ent, mmaps, e, seen) IN
       /\ \/ last.op = "decref" /\ last.e = e
          \/ last.op = "close" /\ \E i \in 1..Len(last.index) : last.index[i] = e
       /\ last' = [op |-> "decref", e |-> e, seen |-> seen, bug |-> d.bug]
       /\ IF seen > 0
            THEN ub' = TRUE /\ UNCHANGED <<ent, mmaps>>
            ELSE ub' = FALSE /\ ent' = d.ent /\ mmaps' = d.mmaps
  /\ UNCHANGED <<cache, entries, disk, held, out>>

\* consensus_cache_entry_mark_for_removal
MarkForRemoval ==
  /\ ~ub
  /\ \E e \in Alive :
       /\ ent' = consensus_cache_entry_mark_for_removal(ent, e)
       /\ last' = [op |-> "mark_for_removal", e |-> e,
                   was |-> ent[e].can_remove]
  /\ UNCHANGED <<cache, entries, disk, mmaps, held, out, ub>>

\* consensus_cache_entry_get_body
GetBody ==
  /\ ~ub
  /\ \E e \in Alive, mapok \in BOOLEAN :
       LET g == consensus_cache_entry_get_body(ent, mmaps, e, mapok) IN
       /\ ent' = g.ent
       /\ mmaps' = g.mmaps
       /\ last' = [op |-> "get_body", e |-> e, r |-> g.r, ptr |-> g.ptr,
                   sz |-> g.sz, bytes |-> g.bytes, mapcalls |-> g.mapcalls,
                   mapok |-> (g.mapcalls > 0 /\ mapok)]
  /\ UNCHANGED <<cache, entries, disk, held, out, ub>>

\* consensus_cache_find_first
FindFirst ==
  /\ ~ub
  /\ cache.st = "open"
  /\ \E key \in Keys, value \in Values :
       /\ last' = [op |-> "find_first", key |-> key, value |-> value,
                   ret |-> consensus_cache_find_first(ent, entries, key, value)]
       /\ entries' = consensus_cache_find_all_entries(ent, entries, key, value)
  /\ UNCHANGED <<cache, ent, disk, mmaps, held, out, ub>>

\* consensus_cache_find_all into a new list or into the caller's list
FindAll ==
  /\ ~ub
  /\ cache.st = "open"
  /\ \E key \in Keys, value \in Values, fresh \in BOOLEAN :
       LET base == IF fresh THEN <<>> ELSE out
           res == consensus_cache_find_all(ent, base, entries, key, value)
       IN /\ Len(res) <= MaxOut
          /\ out' = res
          /\ last' = [op |-> "find_all", key |-> key, value |-> value,
                      base |-> base]
          /\ entries' = consensus_cache_find_all_entries(ent, entries, key, value)
  /\ UNCHANGED <<cache, ent, disk, mmaps, held, ub>>

\* consensus_cache_filter_list on the caller's list
FilterList ==
  /\ ~ub
  /\ out /= <<>>
  /\ \A i \in 1..Len(out) : out[i] \in Alive
  /\ \E key \in Keys, value \in Values :
       /\ out' = consensus_cache_filter_list(ent, out, key, value, 1)
       /\ last' = [op |-> "filter_list", key |-> key, value |-> value,
                   base |-> out]
  /\ UNCHANGED <<cache, entries, ent, disk, mmaps, held, ub>>

Next ==
  \/ Open
  \/ Close
  \/ Add
  \/ Incref
  \/ Decref
  \/ DecrefDestroyed
  \/ MarkForRemoval
  \/ GetBody

Spec == Init /\ [][Next]_vars

\* The queries, on every index that adds into an open cache can build
InitQ ==
  /\ \E n \in 0..MaxIdx : \E ls \in [1..n -> QueryLabels] :
       /\ ent = [i \in 1..n |->
                  [ZeroEntry EXCEPT !.fname = i, !.refcnt = 1,
                                    !.labels = ls[i], !.in_cache = TheCache]]
       /\ entries = [i \in 1..n |-> i]
       /\ disk = [i \in 1..n |-> [fname |-> i, labels |-> ls[i], body |-> <<1>>]]
       /\ held = [i \in 1..n |-> 0]
       /\ mmaps = [i \in 1..n |-> <<>>]
  /\ cache = [st |-> "open", dir |-> 1]
  /\ out = <<>>
  /\ last = NoCall
  /\ ub = FALSE

\* consensus_cache_entry_get_value on an entry of the index
GetValue ==
  /\ ~ub
  /\ \E i \in 1..Len(entries), key \in Keys :
       last' = [op |-> "get_value", e |-> entries[i], key |-> key,
                ret |-> consensus_cache_entry_get_value(ent, entries[i], key)]
  /\ UNCHANGED <<cache, entries, ent, disk, mmaps, held, out, ub>>

\* consensus_cache_entry_get_labels on an entry of the index
GetLabels ==
  /\ ~ub
  /\ \E i \in 1..Len(entries) :
       last' = [op |-> "get_labels", e |-> entries[i],
                ret |-> consensus_cache_entry_get_labels(ent, entries[i])]
  /\ UNCHANGED <<cache, entries, ent, disk, mmaps, held, out, ub>>

NextQ ==
  \/ FindFirst
  \/ FindAll
  \/ FilterList
  \/ GetValue
  \/ GetLabels

SpecQ == InitQ /\ [][NextQ]_vars

TypeOK ==
  /\ Len(held) = Len(ent)
  /\ Len(mmaps) = Len(ent)
  /\ \A i \in 1..Len(entries) : entries[i] \in Allocated

(***************************************************************************)
(* Properties                                                              *)
(***************************************************************************)
\* the entry matches (key, value) as the queries test it
Matches(e, key, value) == consensus_cache_entry_get_value(ent, e, key) = value

\* the matching members of lst, in the order of lst
MatchingInOrder(lst, key, value) ==
  SelectSeq(lst, LAMBDA e : Matches(e, key, value))

\* C1: close releases one refcount unit of every entry of the index,
\* destroys the entries whose count reaches zero, clears in_cache of the
\* entries that stay alive, and touches no entry after destroying it.
C1_CloseTouchesNoDestroyedEntry ==
  last.op = "close" =>
    /\ last.uaf = <<>>
    /\ \A i \in 1..Len(last.index) :
         LET e == last.index[i] IN
         IF last.pre[i] = 1
           THEN ~ ent[e].alive
           ELSE /\ ent[e].alive
                /\ ent[e].refcnt = last.pre[i] - 1
                /\ ent[e].in_cache = 0

\* C2: filter_list keeps the surviving entries in their original relative
\* order, and find_all appends the matching entries in index order.
C2_OrderPreserved ==
  /\ last.op = "filter_list" =>
       out = MatchingInOrder(last.base, last.key, last.value)
  /\ last.op = "find_all" =>
       out = last.base \o MatchingInOrder(entries, last.key, last.value)

\* C3: find_first returns the matching entry of lowest index, NULL if no
\* entry matches.
C3_FindFirstLowestIndex ==
  last.op = "find_first" =>
    LET m == MatchingInOrder(entries, last.key, last.value)
    IN last.ret = IF m = <<>> THEN 0 ELSE m[1]

\* C4: no refcount is ever negative, and a decref that finds the refcount
\* <= 0 is reported as a bug and changes nothing: not the refcount, the
\* mapping, the labels nor the existence of any entry.
C4_DecrefUnderflowReported ==
  /\ [](\A e \in Allocated : ent[e].refcnt >= 0)
  /\ [][(last'.op = "decref" /\ last'.seen <= 0) =>
          /\ last'.bug
          /\ ent' = ent
          /\ mmaps' = mmaps
          /\ entries' = entries]_vars

C4_Witness ==
  /\ last.op = "decref"
  /\ last.seen <= 0
  /\ last.bug
  /\ ~ub

\* the step is a decref of entry e, by a caller or by close
DecrefStepOn(e) ==
  \/ last'.op = "decref" /\ last'.e = e /\ last'.seen = ent[e].refcnt
  \/ last'.op = "close" /\ \E i \in 1..Len(entries) : entries[i] = e

\* C5: an entry is destroyed in exactly the steps in which a decref takes
\* its refcount from 1 to 0; its mapping is released in that step, once,
\* and no mapping of an entry that stays alive is released.
C5_DestroyedExactlyAtZero ==
  /\ [](\A e \in Allocated : \A n \in 1..Len(mmaps[e]) :
          /\ mmaps[e][n] <= 1
          /\ (ent[e].alive /\ ent[e].map = n) => mmaps[e][n] = 0)
  /\ [][\A e \in Allocated :
          /\ (ent[e].alive /\ ~ ent'[e].alive)
               <=> (ent[e].alive /\ ent[e].refcnt = 1 /\ DecrefStepOn(e))
          /\ (ent[e].alive /\ ~ ent'[e].alive /\ ent[e].map /= 0) =>
               mmaps'[e] = [mmaps[e] EXCEPT ![ent[e].map] = 1]
          /\ (ent[e].alive /\ ent'[e].alive) =>
               \A n \in 1..Len(mmaps[e]) : mmaps'[e][n] = mmaps[e][n]
          /\ ~ ent[e].alive => (~ ent'[e].alive /\ mmaps'[e] = mmaps[e])]_vars

\* a mapped entry has just been destroyed by a caller's decref after close
C5_Witness ==
  /\ last.op = "decref"
  /\ ~ last.bug
  /\ ~ ent[last.e].alive
  /\ \E n \in 1..Len(mmaps[last.e]) : mmaps[last.e][n] = 1
  /\ \E e \in Alive : ent[e].can_remove = 1

\* C6: once an entry is mapped, every get_body on it succeeds with the same
\* pointer and length without another call of the directory's map, and the
\* mapping stays as it is while the entry is alive; an entry gets at most
\* one mapping.
C6_GetBodyStable ==
  /\ [](\A e \in Allocated : Len(mmaps[e]) <= 1)
  /\ [][\A e \in Allocated :
          /\ (last'.op = "get_body" /\ last'.e = e /\ last'.r = 0) =>
               /\ ent'[e].map /= 0
               /\ last'.ptr = ent'[e].map
               /\ last'.sz = ent'[e].bodylen
               /\ last'.bytes = ent'[e].body
          /\ (ent[e].alive /\ ent[e].map /= 0) =>
               /\ ent'[e].alive =>
                    /\ ent'[e].map = ent[e].map
                    /\ ent'[e].bodylen = ent[e].bodylen
                    /\ ent'[e].body = ent[e].body
               /\ (last'.op = "get_body" /\ last'.e = e) =>
                    /\ last'.r = 0
                    /\ last'.mapcalls = 0
                    /\ last'.ptr = ent[e].map
                    /\ last'.sz = ent[e].bodylen]_vars

\* a get_body on a mapped entry whose cache has been closed
C6_Witness ==
  /\ last.op = "get_body"
  /\ last.r = 0
  /\ last.mapcalls = 0
  /\ cache.st = "closed"

InIndex(e) == \E i \in 1..Len(entries) : entries[i] = e

\* C7: an entry that outlives its cache is alive with the labels it had and
\* no owning cache; get_body on it fails without a call of the directory
\* if it was not mapped, and returns the established body if it was.
C7_OrphanedEntry ==
  /\ [](\A e \in Alive : ~ InIndex(e) =>
          /\ ent[e].in_cache = 0
          /\ ent[e].refcnt = held[e]
          /\ ent[e].refcnt >= 1
          /\ FileOf(ent[e].fname) /= 0
          /\ consensus_cache_entry_get_labels(ent, e)
               = disk[FileOf(ent[e].fname)].labels
          /\ \A k \in Keys :
               consensus_cache_entry_get_value(ent, e, k) =
                 LET ls == disk[FileOf(ent[e].fname)].labels
                     m == config_line_find(ls, k, 1)
                 IN IF m = 0 THEN NoValue ELSE ls[m].value)
  /\ [][\A e \in Alive :
          (~ InIndex(e) /\ last'.op = "get_body" /\ last'.e = e) =>
             IF ent[e].map = 0
               THEN /\ last'.r = -1
                    /\ last'.mapcalls = 0
                    /\ ent' = ent
                    /\ mmaps' = mmaps
               ELSE /\ last'.r = 0
                    /\ last'.mapcalls = 0
                    /\ last'.bytes = disk[FileOf(ent[e].fname)].body
                    /\ last'.sz = Len(last'.bytes)]_vars

\* after close, get_body has failed on an unmapped entry a caller holds,
\* while another held entry was mapped before the close
C7_Witness ==
  /\ cache.st = "closed"
  /\ last.op = "get_body"
  /\ last.r = -1
  /\ ent[last.e].alive
  /\ \E e \in Alive : ent[e].map /= 0

\* C8: open returns no cache exactly when the directory cannot be bound, and
\* then neither rescans nor leaves a cache without a binding.
C8_OpenFailsIffBindFails ==
  last.op = "open" =>
    /\ (last.ret = 0) <=> (last.dir = 0)
    /\ last.dir = 0 => (~ last.rescanned /\ cache.st /= "open")

\* C9: a successful add makes one new entry with refcount 1, no mapping,
\* can_remove unset, this cache as owner, the file name the directory gave
\* and the given labels in order; it is appended after the entries of the
\* index, which are unchanged, and returned.
C9_AddAppendsNewEntry ==
  [][(last'.op = "add" /\ last'.ret /= 0) =>
       /\ last'.ret = Len(ent) + 1
       /\ Len(ent') = Len(ent) + 1
       /\ ent'[last'.ret] =
            [alive |-> TRUE, refcnt |-> 1, can_remove |-> 0,
             fname |-> last'.fname, labels |-> last'.labels,
             in_cache |-> TheCache, map |-> 0, bodylen |-> 0, body |-> <<>>]
       /\ last'.fname /= 0
       /\ cache' = cache
       /\ entries' = Append(entries, last'.ret)
       /\ \A e \in Allocated : ent'[e] = ent[e] /\ mmaps'[e] = mmaps[e]]_vars

\* a second entry, of three labels, has been added behind the first
C9_Witness ==
  /\ last.op = "add"
  /\ last.ret /= 0
  /\ Len(entries) = 2
  /\ entries[2] = last.ret
  /\ Len(ent[last.ret].labels) = 3

\* C10: when the persist operation fails (negative result or no file name)
\* add returns NULL and the index and every entry are unchanged.
C10_AddFailureChangesNothing ==
  [][(last'.op = "add" /\ (last'.r < 0 \/ last'.fname = 0)) =>
       /\ last'.ret = 0
       /\ entries' = entries
       /\ ent' = ent
       /\ mmaps' = mmaps
       /\ cache' = cache]_vars

\* a persist that reported success without a file name, on a non-empty index
C10_Witness ==
  /\ last.op = "add"
  /\ last.r = 0
  /\ last.fname = 0
  /\ last.ret = 0
  /\ entries /= <<>>

\* the entry has some label with this key and this value
HasLabel(e, key, value) ==
  \E i \in 1..Len(ent[e].labels) :
    ent[e].labels[i].key = key /\ ent[e].labels[i].value = value

\* the elements of a list
Range(q) == {q[i] : i \in 1..Len(q)}

\* what a query returned: the elements filter_list left, the elements
\* find_all appended, the entry find_first returned
Returned ==
  IF last.op = "filter_list" THEN Range(out)
  ELSE IF last.op = "find_all"
    THEN {out[i] : i \in (Len(last.base) + 1)..Len(out)}
  ELSE IF last.ret = 0 THEN {} ELSE {last.ret}

\* the entries a query ran on
Queried == IF last.op = "filter_list" THEN Range(last.base) ELSE Range(entries)

\* C11 as stated: an entry matches (key, value) in find_first, find_all and
\* filter_list exactly if some label of it has that key and that value.
C11_MatchesAnyLabel ==
  last.op \in {"filter_list", "find_all", "find_first"} =>
    /\ Returned \subseteq {e \in Queried : HasLabel(e, last.key, last.value)}
    /\ last.op /= "find_first" =>
         \A e \in Queried : HasLabel(e, last.key, last.value) => e \in Returned
    /\ last.op = "find_first" =>
         ((\E e \in Queried : HasLabel(e, last.key, last.value)) => last.ret /= 0)

\* C11 amended: an entry matches (key, value) exactly if its first label of
\* that key has that value.
C11_MatchesFirstLabelOfKey ==
  last.op \in {"filter_list", "find_all", "find_first"} =>
    /\ Returned \subseteq {e \in Queried : Matches(e, last.key, last.value)}
    /\ last.op /= "find_first" =>
         \A e \in Queried : Matches(e, last.key, last.value) => e \in Returned
    /\ last.op = "find_first" =>
         ((\E e \in Queried : Matches(e, last.key, last.value)) => last.ret /= 0)

\* a filter_list that removed an entry whose key is repeated and whose second
\* label has the value asked for, and kept another entry
C11_Witness ==
  /\ last.op = "filter_list"
  /\ out /= <<>>
  /\ \E e \in Range(last.base) :
       /\ HasLabel(e, last.key, last.value)
       /\ ~ Matches(e, last.key, last.value)
       /\ e \notin Range(out)

\* C12: find_all appends to the list exactly the matching entries of the
\* index, each once, whatever the places of the non-matching ones.
C12_FindAllExact ==
  last.op = "find_all" =>
    /\ Len(out) >= Len(last.base)
    /\ SubSeq(out, 1, Len(last.base)) = last.base
    /\ \A e \in Range(entries) :
         Cardinality({i \in (Len(last.base) + 1)..Len(out) : out[i] = e})
           = IF Matches(e, last.key, last.value) THEN 1 ELSE 0
    /\ \A i \in (Len(last.base) + 1)..Len(out) : out[i] \in Range(entries)

\* find_all("flavor", "ns") appended only the first of three entries to a
\* list that was not empty; the two after it do not match, one for its
\* other value of "flavor"
C12_Witness ==
  /\ last.op = "find_all"
  /\ last.key = "flavor"
  /\ last.value = "ns"
  /\ last.base /= <<>>
  /\ Len(entries) = 3
  /\ out = Append(last.base, entries[1])
  /\ consensus_cache_entry_get_value(ent, entries[2], "flavor") = "microdesc"

\* the places of the listing whose file the rescan of the last open could
\* map, in listing order
MappedFiles ==
  SelectSeq([i \in 1..Len(storage_dir_list(last.dir)) |-> i],
            LAMBDA i : i \notin last.bad)

\* C13: after the rescan of open the index holds one entry per listed file
\* whose map succeeded, in listing order, each with refcount 1, the owning
\* cache set and no mapping; a file whose map fails is skipped and the files
\* after it are still indexed; each discovery mapping made was released.
C13_RescanResult ==
  (last.op = "open" /\ ~ub) =>
    /\ Len(entries) = Len(MappedFiles)
    /\ \A k \in 1..Len(entries) :
         LET e == entries[k]
             f == disk[MappedFiles[k]]
         IN /\ ent[e].alive
            /\ ent[e].fname = f.fname
            /\ ent[e].labels = f.labels
            /\ ent[e].refcnt = 1
            /\ ent[e].in_cache = TheCache
            /\ ent[e].map = 0
            /\ mmaps[e] = <<>>
            /\ \A j \in 1..Len(entries) : entries[j] = e => j = k
    /\ Len(last.scan) = Len(storage_dir_list(last.dir))
    /\ \A i \in 1..Len(last.scan) :
         /\ last.scan[i].made = (IF i \in last.bad THEN 0 ELSE 1)
         /\ last.scan[i].released = last.scan[i].made

\* an open whose rescan could not map the first of two files and indexed the
\* second
C13_Witness ==
  /\ last.op = "open"
  /\ ~ub
  /\ Len(disk) = 2
  /\ last.bad = {1}
  /\ Len(entries) = 1
  /\ ent[entries[1]].fname = disk[2].fname

\* the value of the first label of the sequence that has the key, NoValue if
\* no label has it
FirstValue(labels, key) ==
  LET has == {i \in 1..Len(labels) : labels[i].key = key}
  IN IF has = {} THEN NoValue
     ELSE labels[CHOOSE i \in has : \A j \in has : i <= j].value

\* C14: round trip through the storage directory.  A successful add leaves a
\* file with the labels and the body given; no operation changes a file; the
\* entry that the rescan of a later open makes for a file answers get_value
\* with the first label of each key of the file; a get_body whose map
\* operation succeeds succeeds, and a get_body that succeeds gives the bytes
\* of the file and their number.
C14_RoundTrip ==
  /\ [](/\ (last.op = "add" /\ last.ret /= 0) =>
             /\ FileOf(last.fname) /= 0
             /\ disk[FileOf(last.fname)].labels = last.labels
             /\ disk[FileOf(last.fname)].body = last.data
             /\ ent[last.ret].fname = last.fname
        /\ (last.op = "open" /\ ~ub) =>
             \A i \in 1..Len(storage_dir_list(last.dir)) :
               i \notin last.bad =>
                 \E k \in 1..Len(entries) :
                   /\ ent[entries[k]].fname = disk[i].fname
                   /\ \A key \in Keys :
                        consensus_cache_entry_get_value(ent, entries[k], key)
                          = FirstValue(disk[i].labels, key)
        /\ \A e \in Alive :
             /\ FileOf(ent[e].fname) /= 0
             /\ \A key \in Keys :
                  consensus_cache_entry_get_value(ent, e, key)
                    = FirstValue(disk[FileOf(ent[e].fname)].labels, key)
        /\ (last.op = "get_body" /\ last.mapok) => last.r = 0
        /\ (last.op = "get_body" /\ last.r = 0) =>
             /\ last.bytes = disk[FileOf(ent[last.e].fname)].body
             /\ last.sz = Len(last.bytes))
  /\ [][/\ Len(disk') >= Len(disk)
        /\ \A i \in 1..Len(disk) : disk'[i] = disk[i]]_vars

\* the second document, whose key "flavor" is repeated, was added to an empty
\* directory, the cache was closed, and on the entry that a new open made for
\* the file get_body gave the bytes of the document
C14_Witness ==
  /\ last.op = "get_body"
  /\ last.r = 0
  /\ Len(disk) = 1
  /\ Len(disk[1].labels) = 3
  /\ Len(ent) = 2
  /\ last.e = 2
  /\ ~ ent[1].alive
  /\ InIndex(2)
  /\ ent[2].fname = disk[1].fname
  /\ last.bytes = <<1>>
  /\ consensus_cache_entry_get_value(ent, 2, "flavor") = "microdesc"

\* C15: a get_body whose map operation fails returns -1 and changes neither
\* the entry (still unmapped, same labels and refcount) nor the index; every
\* get_body on an unmapped entry of a cache calls the map operation again
\* and succeeds exactly if that call succeeds.
C15_FailedGetBodyRetries ==
  [][last'.op = "get_body" =>
       LET e == last'.e IN
       /\ last'.r = -1 =>
            /\ ent' = ent
            /\ ent'[e].map = 0
            /\ mmaps' = mmaps
            /\ entries' = entries
            /\ \A key \in Keys :
                 consensus_cache_entry_get_value(ent', e, key)
                   = consensus_cache_entry_get_value(ent, e, key)
       /\ (ent[e].map = 0 /\ ent[e].in_cache /= 0) =>
            /\ last'.mapcalls = 1
            /\ last'.r = (IF last'.mapok THEN 0 ELSE -1)
            /\ last'.mapok => ent'[e].map /= 0]_vars

\* a get_body on an indexed, unmapped entry of the open cache whose map
\* operation failed
C15_Witness ==
  /\ last.op = "get_body"
  /\ last.r = -1
  /\ last.mapcalls = 1
  /\ InIndex(last.e)
  /\ ent[last.e].in_cache = TheCache
  /\ ent[last.e].map = 0
  /\ ent[last.e].refcnt >= 1

\* C16: mark_for_removal sets can_remove of the entry and changes nothing
\* else; on an entry already marked it changes nothing; no operation clears
\* the flag of an entry that stays alive.
C16_MarkForRemovalFrame ==
  [][/\ last'.op = "mark_for_removal" =>
          /\ ent' = [ent EXCEPT ![last'.e].can_remove = 1]
          /\ ent'[last'.e].alive
          /\ ent[last'.e].can_remove = 1 => ent' = ent
          /\ UNCHANGED <<cache, entries, disk, mmaps, held, out, ub>>
     /\ \A e \in Alive :
          (ent[e].can_remove = 1 /\ ent'[e].alive) => ent'[e].can_remove = 1
    ]_vars

\* mark_for_removal on an entry that was marked already
C16_Witness ==
  /\ last.op = "mark_for_removal"
  /\ last.was = 1
  /\ ent[last.e].alive
  /\ ent[last.e].can_remove = 1

\* the units of the count of a live entry: those external callers hold, and
\* the one of the index
Units(e) == held[e] + (IF InIndex(e) THEN 1 ELSE 0)

\* C17: the count is exact.  After any interleaving of increfs and decrefs
\* that keeps it positive the count of a live entry is the unit of the index
\* plus the increfs minus the decrefs; incref then decref restores the whole
\* entry; incref and decref of a count above 1 commute, on one entry and on
\* two.
C17_RefcountExact ==
  /\ \A e \in Alive : ent[e].refcnt = Units(e)
  /\ \A e \in Alive :
       LET i == consensus_cache_entry_incref(ent, e)
           d == consensus_cache_entry_decref(i, mmaps, e, i[e].refcnt)
       IN d.ent = ent /\ d.mmaps = mmaps /\ ~ d.bug
  /\ \A e1 \in Alive, e2 \in Alive :
       ent[e2].refcnt > 1 =>
         LET i == consensus_cache_entry_incref(ent, e1)
             id == consensus_cache_entry_decref(i, mmaps, e2, i[e2].refcnt)
             d == consensus_cache_entry_decref(ent, mmaps, e2, ent[e2].refcnt)
             di == consensus_cache_entry_incref(d.ent, e1)
         IN /\ id.ent = di
            /\ id.mmaps = d.mmaps
            /\ di[e2].refcnt = ent[e2].refcnt + (IF e1 = e2 THEN 0 ELSE -1)

\* an indexed entry after two increfs and a decref: the count is 2
C17_Witness ==
  /\ last.op = "decref"
  /\ ~ last.bug
  /\ last.seen = 3
  /\ ent[last.e].alive
  /\ InIndex(last.e)
  /\ held[last.e] = 1
  /\ ent[last.e].refcnt = 2

\* C18: while external callers decref only the units they took with incref,
\* every entry in the list of an open cache is alive, has a count of at
\* least 1 and has that cache as its owning cache, and is listed once.
C18_IndexWellFormed ==
  cache.st = "open" =>
    \A i \in 1..Len(entries) :
      /\ entries[i] \in Alive
      /\ ent[entries[i]].refcnt >= 1
      /\ ent[entries[i]].in_cache = TheCache
      /\ \A j \in 1..Len(entries) : entries[j] = entries[i] => j = i

\* a caller has given back the unit it took on an entry of the open cache:
\* the entry is still in the index with the unit of the index
C18_Witness ==
  /\ cache.st = "open"
  /\ last.op = "decref"
  /\ last.seen = 2
  /\ InIndex(last.e)
  /\ held[last.e] = 0
  /\ ent[last.e].refcnt = 1
  /\ Len(entries) = 2

\* the mappings of entry e that are not released
Outstanding(e) == {n \in 1..Len(mmaps[e]) : mmaps[e][n] = 0}

\* C19: no leak.  Once the cache is closed and the external callers have
\* given back every unit they took, every entry is destroyed and every
\* mapping get_body made is released exactly once; so a run in which that
\* eventually is the case eventually has no entry and no mapping left.  At
\* all times the mappings not released are those of the live entries that
\* have one, and no mapping is released twice.
C19_NoLeak ==
  /\ (cache.st /= "open" /\ SumSeq(held, 1) = 0) =>
       /\ Alive = {}
       /\ \A e \in Allocated : \A n \in 1..Len(mmaps[e]) : mmaps[e][n] = 1
  /\ \A e \in Allocated :
       /\ \A n \in 1..Len(mmaps[e]) : mmaps[e][n] \in {0, 1}
       /\ Outstanding(e) = (IF ent[e].alive /\ ent[e].map /= 0
                              THEN {ent[e].map} ELSE {})

\* the cache is closed, the last unit of an entry that get_body had mapped
\* has been given back after that, and nothing is left
C19_Witness ==
  /\ cache.st = "closed"
  /\ last.op = "decref"
  /\ ~ last.bug
  /\ SumSeq(held, 1) = 0
  /\ Alive = {}
  /\ mmaps[last.e] = <<1>>

\* C20: find_first, find_all, get_value and get_labels change neither the
\* list of the cache (elements and order) nor any field of any entry, so the
\* handles returned carry no unit; filter_list changes only the list given.
C20_QueriesReadOnly ==
  [][/\ last'.op \in {"find_first", "find_all", "get_value", "get_labels",
                      "filter_list"} =>
          /\ entries' = entries
          /\ ent' = ent
          /\ mmaps' = mmaps
          /\ held' = held
          /\ cache' = cache
          /\ disk' = disk
     /\ last'.op \in {"find_first", "get_value", "get_labels"} => out' = out
     /\ last'.op = "find_all" =>
          /\ Len(out') >= Len(last'.base)
          /\ \A i \in 1..Len(last'.base) : out'[i] = last'.base[i]
     /\ last'.op = "get_value" =>
          last'.ret = FirstValue(ent[last'.e].labels, last'.key)
     /\ last'.op = "get_labels" => last'.ret = ent[last'.e].labels]_vars

\* a find_all that returned some of the three entries of the index, not all:
\* the index still lists the three, and the entry returned has only the
\* unit of the index
C20_Witness ==
  /\ last.op = "find_all"
  /\ Len(entries) = 3
  /\ out /= <<>>
  /\ Len(out) < Len(entries)
  /\ entries = <<1, 2, 3>>
  /\ ent[out[1]].refcnt = 1
  /\ out[1] /= entries[1]

====
